---- MODULE Spec2Model ----
(***************************************************************************)
(* cleanup_backup.py: the directory scanner (list_large_items), the        *)
(* interactive pre-backup cleanup loop (pre_backup_cleanup) with its       *)
(* selection parser and deletion executor.                                 *)
(*                                                                         *)
(* Strings and paths are sequences of one-character strings, so that       *)
(* startswith, endswith, lower, strip, split, int and os.path.dirname are  *)
(* computed character by character as Python computes them.                *)
(***************************************************************************)
EXTENDS Integers, Sequences, FiniteSets, TLC

VARIABLES
    fs_dirs,        \* the filesystem: set of existing directory paths
    fs_files,       \* the filesystem: existing file path -> st_size
    fs_unreadable,  \* files on which os.path.getsize raises OSError
    fs_locked,      \* files whose removal raises (permission denied, in use)
    scandir_order,  \* the order in which the OS returns directory entries
    limit,          \* list_large_items(limit)
    pc,             \* position of the single thread of main()
    exc,            \* uncaught exception that ended the process, or "none"
    dir_sizes,      \* list_large_items: dict path -> cumulative size (insertion ordered)
    large_files,    \* main: first value returned by list_large_items
    large_dirs,     \* main: second value returned by list_large_items
    current_files,  \* pre_backup_cleanup: working file list
    current_dirs,   \* pre_backup_cleanup: working directory list
    cmd,            \* pre_backup_cleanup: the command as read, stripped and lowered
    to_delete,      \* pre_backup_cleanup: the pending batch
    confirm,        \* pre_backup_cleanup: the answer to the confirmation prompt
    oob_removals,   \* number of removals done by other processes so far
    remaining_files,\* main: the list returned by pre_backup_cleanup
    mounted,        \* whether the backup volume is mounted at MOUNT_POINT
    mount_observed, \* ensure_mounted: is_mounted() has returned True
    choice,         \* ensure_mounted: the answer to the mount prompt, lowered
    source_idx,     \* backup_incremental: position in SOURCE_DIRS of the next source
    rsync_log,      \* the rsync runs so far: <<source, returncode>>
    backup_errors   \* backup_incremental: sources for which an error was printed

vars == <<fs_dirs, fs_files, fs_unreadable, fs_locked, scandir_order, limit, pc, exc,
          dir_sizes, large_files, large_dirs, current_files, current_dirs,
          cmd, to_delete, confirm, oob_removals,
          remaining_files, mounted, mount_observed, choice, source_idx, rsync_log,
          backup_errors>>

\* The variables of the backup and of the post-backup cleanup
backup_vars == <<mounted, mount_observed, choice, source_idx, rsync_log, backup_errors>>

----------------------------------------------------------------------------
(* Bounds of the model *)

MaxLimit == 3
MaxLocked == 1
MaxOutOfBand == 1
MaxIndex == 4

----------------------------------------------------------------------------
(* str and os.path *)

sep == "/"

startswith(s, prefix) ==
    Len(prefix) <= Len(s) /\ SubSeq(s, 1, Len(prefix)) = prefix

endswith(s, suffix) ==
    Len(suffix) <= Len(s) /\ SubSeq(s, Len(s) - Len(suffix) + 1, Len(s)) = suffix

\* s.rfind(c) searched from position i downward; 1-based, 0 when absent
RECURSIVE rfind(_, _, _)
rfind(s, c, i) ==
    IF i = 0 THEN 0 ELSE IF s[i] = c THEN i ELSE rfind(s, c, i - 1)

RECURSIVE rstrip_sep(_)
rstrip_sep(s) ==
    IF s # <<>> /\ s[Len(s)] = sep THEN rstrip_sep(SubSeq(s, 1, Len(s) - 1)) ELSE s

\* posixpath.dirname
dirname(p) ==
    LET head == SubSeq(p, 1, rfind(p, sep, Len(p)))
    IN  IF rstrip_sep(head) = <<>> THEN head ELSE rstrip_sep(head)

\* posixpath.basename
basename(p) == SubSeq(p, rfind(p, sep, Len(p)) + 1, Len(p))

\* posixpath.join(a, b)
join(a, b) ==
    IF startswith(b, <<sep>>) THEN b
    ELSE IF a = <<>> \/ a[Len(a)] = sep THEN a \o b
    ELSE a \o <<sep>> \o b

----------------------------------------------------------------------------
(* Configuration and the filesystems the scan is run on *)

HOME_p == <<"/", "p">>
HOME_q == <<"/", "q">>

\* Sibling directories of one home directory, none a string prefix of another
SOURCE_DIRS == <<HOME_p, HOME_q>>

Dir_px == join(HOME_p, <<"x">>)
Dir_pxy == join(Dir_px, <<"y">>)
Dir_py == join(HOME_p, <<"y">>)
Dir_qx == join(HOME_q, <<"x">>)

File_pa == join(HOME_p, <<"a">>)
File_pxb == join(Dir_px, <<"b", ".", "I">>)
File_pxyc == join(Dir_pxy, <<"c">>)
File_pyd == join(Dir_py, <<"d", ".", "i">>)
File_qxe == join(Dir_qx, <<"e">>)

AllDirs == {HOME_p, HOME_q, Dir_px, Dir_pxy, Dir_py, Dir_qx}
AllFiles == {File_pa, File_pxb, File_pxyc, File_pyd, File_qxe}

\* Two orders in which the OS may return the entries of the directories
EntryOrderA == <<HOME_p, HOME_q, Dir_px, Dir_py, Dir_pxy, Dir_qx,
                 File_pa, File_pxb, File_pxyc, File_pyd, File_qxe>>
EntryOrderB == <<File_qxe, File_pyd, File_pxyc, File_pxb, File_pa,
                 Dir_qx, Dir_pxy, Dir_py, Dir_px, HOME_q, HOME_p>>

\* A directory tree: every directory but "/" has its parent in the set
DirTrees == {D \in SUBSET AllDirs : \A d \in D : dirname(d) = <<sep>> \/ dirname(d) \in D}

exists(path) == path \in fs_dirs \/ path \in DOMAIN fs_files
isfile(path) == path \in DOMAIN fs_files
isdir(path) == path \in fs_dirs

----------------------------------------------------------------------------
(* list_large_items: the walk and the size index *)

MiB == 1048576

get_file_size(path) ==
    IF path \in fs_unreadable \/ path \notin DOMAIN fs_files THEN 0 ELSE fs_files[path]

\* os.scandir(top): the entries of top, as names, in the OS's order
scandir_dirs(top) ==
    LET here(e) == e \in fs_dirs /\ e # top /\ dirname(e) = top
        found == SelectSeq(scandir_order, here)
    IN  [i \in 1..Len(found) |-> basename(found[i])]

scandir_files(top) ==
    LET here(e) == e \in DOMAIN fs_files /\ dirname(e) = top
        found == SelectSeq(scandir_order, here)
    IN  [i \in 1..Len(found) |-> basename(found[i])]

\* os.walk(top), top-down: the sequence of the directories it yields
RECURSIVE walk(_), walk_each(_, _)
\* Mutation of walk: bottom-up, a directory is yielded after its subdirectories
walk_bottom_up(top) == walk_each(top, scandir_dirs(top)) \o <<top>>

walk(top) == <<top>> \o walk_each(top, scandir_dirs(top))
walk_each(top, names) ==
    IF names = <<>> THEN <<>>
    ELSE walk(join(top, Head(names))) \o walk_each(top, Tail(names))

\* A dict with insertion order: a sequence of <<key, value>>
RECURSIVE dict_find(_, _, _)
dict_find(d, k, i) ==
    IF i > Len(d) THEN 0 ELSE IF d[i][1] = k THEN i ELSE dict_find(d, k, i + 1)

dict_get(d, k, default) ==
    LET i == dict_find(d, k, 1) IN IF i = 0 THEN default ELSE d[i][2]

dict_set(d, k, v) ==
    LET i == dict_find(d, k, 1)
    IN  IF i = 0 THEN Append(d, <<k, v>>) ELSE [d EXCEPT ![i] = <<k, v>>]

\* The inner loop over filenames: acc = [all_files, current_dir_size]
RECURSIVE scan_filenames(_, _, _)
scan_filenames(root, filenames, acc) ==
    IF filenames = <<>> THEN acc
    ELSE LET file_path == join(root, Head(filenames))
             size == get_file_size(file_path)
         IN  scan_filenames(root, Tail(filenames),
                 [all_files |-> IF size > 1024 * 1024
                                THEN Append(acc.all_files, <<file_path, size>>)
                                ELSE acc.all_files,
                  current_dir_size |-> acc.current_dir_size + size])

\* Mutation of accumulate: the size is recorded for the walked directory only
accumulate_no_climb(ds, temp_path, source, current_dir_size) ==
    dict_set(ds, temp_path, dict_get(ds, temp_path, 0) + current_dir_size)

\* The while True loop that climbs from the walked directory to the source
RECURSIVE accumulate(_, _, _, _)
accumulate(ds, temp_path, source, current_dir_size) ==
    LET ds2 == dict_set(ds, temp_path, dict_get(ds, temp_path, 0) + current_dir_size)
    IN  IF temp_path = source \/ temp_path = dirname(source) THEN ds2
        ELSE accumulate(ds2, dirname(temp_path), source, current_dir_size)

\* The body of "for root, dirs, filenames in os.walk(source)"
RECURSIVE scan_walk(_, _, _)
scan_walk(source, roots, st) ==
    IF roots = <<>> THEN st
    ELSE LET root == Head(roots)
             r == scan_filenames(root, scandir_files(root),
                      [all_files |-> st.all_files, current_dir_size |-> 0])
         IN  scan_walk(source, Tail(roots),
                 [all_files |-> r.all_files,
                  dir_sizes |-> accumulate(st.dir_sizes, root, source, r.current_dir_size)])

\* "for source in SOURCE_DIRS", skipping the sources that do not exist
RECURSIVE scan_sources(_, _)
scan_sources(sources, st) ==
    IF sources = <<>> THEN st
    ELSE IF ~exists(Head(sources)) THEN scan_sources(Tail(sources), st)
    ELSE scan_sources(Tail(sources), scan_walk(Head(sources), walk(Head(sources)), st))

----------------------------------------------------------------------------
(* list_large_items: ranking and deduplication *)

\* Mutation of insert_by_size: an item goes before the items of its own size
insert_before_equal(sorted, x) ==
    LET larger(item) == item[2] > x[2]
        rest(item) == item[2] <= x[2]
    IN  SelectSeq(sorted, larger) \o <<x>> \o SelectSeq(sorted, rest)

\* list.sort / sorted with key = size, reverse = True: stable, equal sizes keep their order
RECURSIVE insert_by_size(_, _)
insert_by_size(sorted, x) ==
    IF sorted = <<>> THEN <<x>>
    ELSE IF Head(sorted)[2] >= x[2] THEN <<Head(sorted)>> \o insert_by_size(Tail(sorted), x)
    ELSE <<x>> \o sorted

RECURSIVE sorted_reverse(_, _)
sorted_reverse(items, done) ==
    IF items = <<>> THEN done
    ELSE sorted_reverse(Tail(items), insert_by_size(done, Head(items)))

\* Mutation of is_candidate: the sources themselves are ranked too
is_candidate_with_sources(d) ==
    \E i \in 1..Len(SOURCE_DIRS) : startswith(d, SOURCE_DIRS[i])

\* any(d.startswith(src) and d != src for src in SOURCE_DIRS)
is_candidate(d) ==
    \E i \in 1..Len(SOURCE_DIRS) : startswith(d, SOURCE_DIRS[i]) /\ d # SOURCE_DIRS[i]

raw_sorted_dirs(ds) ==
    LET keep(item) == is_candidate(item[1])
    IN  sorted_reverse(SelectSeq(ds, keep), <<>>)

\* Mutation of is_redundant: only an equal path counts
is_redundant_equal_only(d_path, deduped_dirs) ==
    \E i \in 1..Len(deduped_dirs) : d_path = deduped_dirs[i][1]

\* The inner loop over deduped_dirs
is_redundant(d_path, deduped_dirs) ==
    \E i \in 1..Len(deduped_dirs) :
        \/ startswith(d_path, deduped_dirs[i][1] \o <<sep>>)
        \/ d_path = deduped_dirs[i][1]

\* Mutation of limit_reached: off by one
limit_reached_late(deduped_dirs, lim) == Len(deduped_dirs) > lim

\* if len(deduped_dirs) >= limit: break
limit_reached(deduped_dirs, lim) == Len(deduped_dirs) >= lim

RECURSIVE dedupe(_, _, _)
dedupe(raw, deduped_dirs, lim) ==
    IF raw = <<>> THEN deduped_dirs
    ELSE LET d == Head(raw)
             next == IF is_redundant(d[1], deduped_dirs) THEN deduped_dirs
                     ELSE Append(deduped_dirs, d)
         IN  IF limit_reached(next, lim) THEN next ELSE dedupe(Tail(raw), next, lim)

\* s[:n] for n >= 0
slice_to(s, n) == SubSeq(s, 1, IF n < Len(s) THEN n ELSE Len(s))

\* The whole function: what it computes and returns
list_large_items(lim) ==
    LET st == scan_sources(SOURCE_DIRS, [all_files |-> <<>>, dir_sizes |-> <<>>])
        all_files == sorted_reverse(st.all_files, <<>>)
    IN  [dir_sizes |-> st.dir_sizes,
         files |-> slice_to(all_files, lim),
         dirs |-> dedupe(raw_sorted_dirs(st.dir_sizes), <<>>, lim)]

----------------------------------------------------------------------------
(* str methods used by the selection parser *)

UpperCase == <<"D", "E", "F", "I", "N", "O", "R", "S", "X", "Y">>
LowerCase == <<"d", "e", "f", "i", "n", "o", "r", "s", "x", "y">>
Digits == <<"0", "1", "2", "3", "4", "5", "6", "7", "8", "9">>
Whitespace == {" "}

\* position of c in the sequence t, 0 when absent
RECURSIVE index_of(_, _, _)
index_of(t, c, i) ==
    IF i > Len(t) THEN 0 ELSE IF t[i] = c THEN i ELSE index_of(t, c, i + 1)

lower_char(c) ==
    LET i == index_of(UpperCase, c, 1) IN IF i = 0 THEN c ELSE LowerCase[i]

\* str.lower
lower(s) == [i \in 1..Len(s) |-> lower_char(s[i])]

\* str.strip(chars)
RECURSIVE lstrip(_, _)
lstrip(s, chars) ==
    IF s # <<>> /\ Head(s) \in chars THEN lstrip(Tail(s), chars) ELSE s

RECURSIVE rstrip(_, _)
rstrip(s, chars) ==
    IF s # <<>> /\ s[Len(s)] \in chars THEN rstrip(SubSeq(s, 1, Len(s) - 1), chars) ELSE s

strip(s, chars) == rstrip(lstrip(s, chars), chars)

\* str.replace(old, new) for one-character old and new
replace(s, old, new) == [i \in 1..Len(s) |-> IF s[i] = old THEN new ELSE s[i]]

\* str.split(): on runs of whitespace, no empty strings
RECURSIVE split_whitespace(_, _, _)
split_whitespace(s, word, out) ==
    IF s = <<>> THEN (IF word = <<>> THEN out ELSE Append(out, word))
    ELSE IF Head(s) \in Whitespace
         THEN split_whitespace(Tail(s), <<>>, IF word = <<>> THEN out ELSE Append(out, word))
    ELSE split_whitespace(Tail(s), Append(word, Head(s)), out)

\* str.split(c): on every c, empty strings kept
RECURSIVE split_on(_, _, _, _)
split_on(s, c, part, out) ==
    IF s = <<>> THEN Append(out, part)
    ELSE IF Head(s) = c THEN split_on(Tail(s), c, <<>>, Append(out, part))
    ELSE split_on(Tail(s), c, Append(part, Head(s)), out)

\* int(s): [ok, value]; ok = FALSE stands for ValueError.
\* An optional sign, then digits, single underscores allowed between digits.
RECURSIVE int_digits(_, _, _)
int_digits(s, value, after_digit) ==
    IF s = <<>> THEN [ok |-> after_digit, value |-> value]
    ELSE IF Head(s) = "_"
         THEN (IF after_digit /\ Len(s) > 1 THEN int_digits(Tail(s), value, FALSE)
               ELSE [ok |-> FALSE, value |-> 0])
    ELSE LET d == index_of(Digits, Head(s), 1)
         IN  IF d = 0 THEN [ok |-> FALSE, value |-> 0]
             ELSE int_digits(Tail(s), 10 * value + (d - 1), TRUE)

int(s) ==
    LET t == strip(s, Whitespace)
    IN  IF t # <<>> /\ Head(t) = "-"
        THEN LET r == int_digits(Tail(t), 0, FALSE) IN [ok |-> r.ok, value |-> 0 - r.value]
        ELSE IF t # <<>> /\ Head(t) = "+" THEN int_digits(Tail(t), 0, FALSE)
        ELSE int_digits(t, 0, FALSE)

\* range(a, b) as a sequence
range(a, b) == IF b > a THEN [i \in 1..(b - a) |-> a + i - 1] ELSE <<>>

----------------------------------------------------------------------------
(* pre_backup_cleanup: the selection parser *)

DoneToken == <<"d", "o", "n", "e">>

\* Mutation of range_indices: the end of the range is left out
range_indices_exclusive(start, end) == range(start - 1, end - 1)

\* indices = range(start - 1, end)
range_indices(start, end) == range(start - 1, end)

\* The try block of one token: [ok, indices]; ok = FALSE when it raises
token_indices(num_part) ==
    IF index_of(num_part, "-", 1) # 0
    THEN LET parts == split_on(num_part, "-", <<>>, <<>>)
         IN  IF Len(parts) # 2 THEN [ok |-> FALSE, indices |-> <<>>]
             ELSE LET start == int(strip(parts[1], {"f", "d"}))
                      end == int(strip(parts[2], {"f", "d"}))
                  IN  IF ~start.ok \/ ~end.ok THEN [ok |-> FALSE, indices |-> <<>>]
                      ELSE [ok |-> TRUE, indices |-> range_indices(start.value, end.value)]
    ELSE LET n == int(num_part)
         IN  IF ~n.ok THEN [ok |-> FALSE, indices |-> <<>>]
             ELSE [ok |-> TRUE, indices |-> <<n.value - 1>>]

\* "for idx in indices": the entries one token appends to to_delete
RECURSIVE select_indices(_, _, _, _, _)
select_indices(prefix, indices, files, dirs, out) ==
    IF indices = <<>> THEN out
    ELSE LET idx == Head(indices)
             next == IF prefix = "f" /\ 0 <= idx /\ idx < Len(files)
                     THEN Append(out, <<files[idx + 1][1], files[idx + 1][2], "file", idx>>)
                     ELSE IF prefix = "d" /\ 0 <= idx /\ idx < Len(dirs)
                     THEN Append(out, <<dirs[idx + 1][1], dirs[idx + 1][2], "dir", idx>>)
                     ELSE out
         IN  select_indices(prefix, Tail(indices), files, dirs, next)

\* Mutation of parse_tokens: only the first token of the command is parsed
parse_tokens_first_only(tokens, files, dirs, out) ==
    IF tokens = <<>> THEN out
    ELSE LET token == strip(Head(tokens), Whitespace)
         IN  IF token = <<>> \/ token[1] \notin {"f", "d"} THEN out
             ELSE LET t == token_indices(Tail(token))
                  IN  IF t.ok THEN select_indices(token[1], t.indices, files, dirs, out)
                      ELSE out

\* "for token in tokens"
RECURSIVE parse_tokens(_, _, _, _)
parse_tokens(tokens, files, dirs, out) ==
    IF tokens = <<>> THEN out
    ELSE LET token == strip(Head(tokens), Whitespace)
         IN  IF token = <<>> \/ token[1] \notin {"f", "d"}
             THEN parse_tokens(Tail(tokens), files, dirs, out)
             ELSE LET t == token_indices(Tail(token))
                  IN  parse_tokens(Tail(tokens), files, dirs,
                          IF t.ok THEN select_indices(token[1], t.indices, files, dirs, out)
                          ELSE out)

\* Extension mode comparing the path as spelled on disk
extension_matches_case_sensitive(command, files) ==
    LET hit(i) == endswith(files[i][1], command)
    IN  [k \in 1..Cardinality({i \in 1..Len(files) : hit(i)}) |->
            LET i == CHOOSE j \in 1..Len(files) :
                        hit(j) /\ Cardinality({h \in 1..j : hit(h)}) = k
            IN  <<files[i][1], files[i][2], "file", i - 1>>]

\* Extension mode: the files whose lowered path ends with the command
extension_matches(command, files) ==
    LET hit(i) == endswith(lower(files[i][1]), command)
        RECURSIVE collect(_, _)
        collect(i, out) ==
            IF i > Len(files) THEN out
            ELSE collect(i + 1, IF hit(i)
                                THEN Append(out, <<files[i][1], files[i][2], "file", i - 1>>)
                                ELSE out)
    IN  collect(1, <<>>)

\* to_delete as built from a stripped, lowered command
parse_command(command, files, dirs) ==
    IF startswith(command, <<".">>) THEN extension_matches(command, files)
    ELSE parse_tokens(split_whitespace(replace(command, ",", " "), <<>>, <<>>),
                      files, dirs, <<>>)

----------------------------------------------------------------------------
(* pre_backup_cleanup: the deletion executor *)
(* st = [current_files, current_dirs, fs_files, fs_dirs, exc]; once st.exc is *)
(* set the exception is propagating and nothing more is done.              *)

\* sorted(indices, reverse=True)
RECURSIVE insert_descending(_, _)
insert_descending(sorted, x) ==
    IF sorted = <<>> THEN <<x>>
    ELSE IF Head(sorted) >= x THEN <<Head(sorted)>> \o insert_descending(Tail(sorted), x)
    ELSE <<x>> \o sorted

RECURSIVE sorted_descending(_, _)
sorted_descending(items, done) ==
    IF items = <<>> THEN done
    ELSE sorted_descending(Tail(items), insert_descending(done, Head(items)))

\* [item[3] for item in to_delete if item[2] == kind], sorted in reverse
back_indices(batch, kind) ==
    LET of_kind(item) == item[3] = kind
        items == SelectSeq(batch, of_kind)
    IN  sorted_descending([i \in 1..Len(items) |-> items[i][4]], <<>>)

\* list.pop(idx) for 0 <= idx < len
pop(list, idx) == SubSeq(list, 1, idx) \o SubSeq(list, idx + 2, Len(list))

path_exists(st, path) == path \in st.fs_dirs \/ path \in DOMAIN st.fs_files

without_files(files, gone) == [f \in (DOMAIN files) \ gone |-> files[f]]

\* os.remove(path): raises on a file that cannot be removed
os_remove(st, path) ==
    IF path \in fs_locked THEN [st EXCEPT !.exc = "PermissionError"]
    ELSE [st EXCEPT !.fs_files = without_files(st.fs_files, {path})]

\* shutil.rmtree(path): removes everything at or beneath path; raises at the
\* first entry it cannot remove, having removed the files in `partial` by then
rmtree(st, path, partial) ==
    LET files_beneath == {f \in DOMAIN st.fs_files : startswith(f, path \o <<sep>>)}
        dirs_beneath == {d \in st.fs_dirs : d = path \/ startswith(d, path \o <<sep>>)}
    IN  IF files_beneath \cap fs_locked # {}
        THEN [st EXCEPT !.fs_files = without_files(st.fs_files,
                                         (files_beneath \cap partial) \ fs_locked),
                        !.exc = "PermissionError"]
        ELSE [st EXCEPT !.fs_files = without_files(st.fs_files, files_beneath),
                        !.fs_dirs = st.fs_dirs \ dirs_beneath]

\* "for f_idx in file_back_indices"
RECURSIVE delete_files(_, _, _)
delete_files(indices, st, partial) ==
    IF indices = <<>> \/ st.exc # "none" THEN st
    ELSE LET f_idx == Head(indices)
         IN  IF f_idx >= Len(st.current_files) THEN [st EXCEPT !.exc = "IndexError"]
             ELSE LET path == st.current_files[f_idx + 1][1]
                      r == IF ~path_exists(st, path) THEN st
                           ELSE IF path \in DOMAIN st.fs_files THEN os_remove(st, path)
                           ELSE IF path \in st.fs_dirs THEN rmtree(st, path, partial)
                           ELSE st
                  IN  IF r.exc # "none" THEN r
                      ELSE delete_files(Tail(indices),
                               [r EXCEPT !.current_files = pop(r.current_files, f_idx)],
                               partial)

\* "for d_idx in dir_back_indices"
RECURSIVE delete_dirs(_, _, _)
delete_dirs(indices, st, partial) ==
    IF indices = <<>> \/ st.exc # "none" THEN st
    ELSE LET d_idx == Head(indices)
         IN  IF d_idx >= Len(st.current_dirs) THEN [st EXCEPT !.exc = "IndexError"]
             ELSE LET path == st.current_dirs[d_idx + 1][1]
                      r == IF ~path_exists(st, path) THEN st
                           ELSE IF path \in st.fs_dirs THEN rmtree(st, path, partial)
                           ELSE [st EXCEPT !.exc = "NotADirectoryError"]
                  IN  IF r.exc # "none" THEN r
                      ELSE delete_dirs(Tail(indices),
                               [r EXCEPT !.current_dirs = pop(r.current_dirs, d_idx)],
                               partial)

\* Mutation of confirmed: the answer is compared without regard to case
confirmed_any_case(answer) == answer \in {"YES", "yes", "Yes"}

\* if confirm == 'YES'
confirmed(answer) == answer = "YES"

\* The body of "if confirm == 'YES'": both passes, files first
execute_batch(batch, st, partial) ==
    delete_dirs(back_indices(batch, "dir"),
                delete_files(back_indices(batch, "file"), st, partial),
                partial)

----------------------------------------------------------------------------
(* Initial states: the process before main() runs, on some filesystem *)

\* What a file of the tree may be: absent, present with a size, present but unreadable
SizeOf(opt) ==
    CASE opt = "1MiB" -> MiB
      [] opt = "1MiB+1" -> MiB + 1
      [] opt = "2MiB" -> 2 * MiB
      [] OTHER -> 2 * MiB

FileOptions == {"absent", "unreadable", "1MiB", "1MiB+1", "2MiB"}

\* opts[f]: what file f may be when its directory exists
InitWith(trees, opts, orders, limits, max_locked, mounts) ==
    /\ fs_dirs \in trees
    /\ \E opt_of \in [AllFiles -> FileOptions] :
          /\ \A f \in AllFiles :
                IF dirname(f) \in fs_dirs THEN opt_of[f] \in opts[f] ELSE opt_of[f] = "absent"
          /\ fs_files = [f \in {g \in AllFiles : opt_of[g] # "absent"} |-> SizeOf(opt_of[f])]
          /\ fs_unreadable = {f \in AllFiles : opt_of[f] = "unreadable"}
    /\ fs_locked \in {L \in SUBSET (DOMAIN fs_files) : Cardinality(L) <= max_locked}
    /\ scandir_order \in orders
    /\ limit \in limits
    /\ pc = "list_large_items"
    /\ exc = "none"
    /\ dir_sizes = <<>>
    /\ large_files = <<>>
    /\ large_dirs = <<>>
    /\ current_files = <<>>
    /\ current_dirs = <<>>
    /\ cmd = <<>>
    /\ to_delete = <<>>
    /\ confirm = ""
    /\ oob_removals = 0
    /\ remaining_files = <<>>
    /\ mounted \in mounts
    /\ mount_observed = FALSE
    /\ choice = <<>>
    /\ source_idx = 0
    /\ rsync_log = <<>>
    /\ backup_errors = <<>>

\* The scan: every tree over the directories, every file of an existing
\* directory absent, unreadable or of one of three sizes
InitScan ==
    InitWith(DirTrees, [f \in AllFiles |-> FileOptions],
             {EntryOrderA, EntryOrderB}, 1..MaxLimit, 0, {FALSE})

\* The parser: every tree, every file absent or large, so that the lists
\* have every length from 0 to the limit
InitParse ==
    InitWith(DirTrees, [f \in AllFiles |-> {"absent", "2MiB"}],
             {EntryOrderA}, {MaxLimit}, 0, {FALSE})

\* The session: the whole tree with large files, more of them than the limit
\* lists, one of them possibly locked
Init ==
    InitWith({AllDirs},
             [f \in AllFiles |-> IF f = File_pa THEN {"absent", "2MiB"}
                                 ELSE IF f = File_pxyc THEN {"1MiB", "2MiB"}
                                 ELSE {"2MiB"}],
             {EntryOrderA}, {MaxLimit}, MaxLocked, {FALSE})

\* The backup: both sources or one of them, large files, one possibly locked,
\* the volume mounted or not
InitBackup ==
    InitWith({AllDirs, AllDirs \ {HOME_q, Dir_qx}, {HOME_q, Dir_qx}},
             [f \in AllFiles |-> IF f = File_pa THEN {"absent", "2MiB"} ELSE {"2MiB"}],
             {EntryOrderA}, {MaxLimit}, MaxLocked, BOOLEAN)

----------------------------------------------------------------------------
(* main(): the scan, then the working copies made on entry to pre_backup_cleanup *)

ListLargeItems ==
    /\ pc = "list_large_items"
    /\ LET r == list_large_items(limit)
       IN  /\ dir_sizes' = r.dir_sizes
           /\ large_files' = r.files
           /\ large_dirs' = r.dirs
           /\ current_files' = r.files
           /\ current_dirs' = r.dirs
    /\ pc' = "while_true"
    /\ UNCHANGED <<fs_dirs, fs_files, fs_unreadable, fs_locked, scandir_order, limit,
                   exc, cmd, to_delete, confirm, oob_removals, remaining_files>>
    /\ UNCHANGED backup_vars

NextScan == ListLargeItems

SpecScan == InitScan /\ [][NextScan]_vars

----------------------------------------------------------------------------
(* pre_backup_cleanup: the interactive loop *)

\* Mutation of LoopHead: the loop ends as soon as one of the lists is empty
LoopHead_either_empty ==
    /\ pc = "while_true"
    /\ IF current_files = <<>> \/ current_dirs = <<>>
       THEN /\ pc' = "do_backup"
            /\ remaining_files' = current_files
       ELSE /\ pc' = "input_cmd"
            /\ remaining_files' = remaining_files
    /\ cmd' = <<>>
    /\ to_delete' = <<>>
    /\ confirm' = ""
    /\ UNCHANGED <<fs_dirs, fs_files, fs_unreadable, fs_locked, scandir_order, limit, exc,
                   dir_sizes, large_files, large_dirs, current_files, current_dirs,
                   oob_removals>>
    /\ UNCHANGED backup_vars

\* "while True" and the test that ends the loop when both lists are empty.
\* cmd, to_delete and confirm are assigned again before they are next read.
LoopHead ==
    /\ pc = "while_true"
    /\ IF current_files = <<>> /\ current_dirs = <<>>
       THEN /\ pc' = "do_backup"
            /\ remaining_files' = current_files
       ELSE /\ pc' = "input_cmd"
            /\ remaining_files' = remaining_files
    /\ cmd' = <<>>
    /\ to_delete' = <<>>
    /\ confirm' = ""
    /\ UNCHANGED <<fs_dirs, fs_files, fs_unreadable, fs_locked, scandir_order, limit, exc,
                   dir_sizes, large_files, large_dirs, current_files, current_dirs,
                   oob_removals>>
    /\ UNCHANGED backup_vars

\* cmd = input("Command: ").strip().lower(), the parse, and the branch on its result
ReadCommand(input) ==
    /\ pc = "input_cmd"
    /\ cmd' = lower(strip(input, Whitespace))
    /\ IF cmd' = DoneToken
       THEN /\ to_delete' = <<>>
            /\ pc' = "do_backup"
            /\ remaining_files' = current_files
       ELSE /\ to_delete' = parse_command(cmd', current_files, current_dirs)
            /\ pc' = IF to_delete' = <<>> THEN "while_true" ELSE "input_confirm"
            /\ remaining_files' = remaining_files
    /\ UNCHANGED <<fs_dirs, fs_files, fs_unreadable, fs_locked, scandir_order, limit, exc,
                   dir_sizes, large_files, large_dirs, current_files, current_dirs,
                   confirm, oob_removals>>
    /\ UNCHANGED backup_vars

\* confirm = input(...) and the deletion of the batch when it is 'YES'
ReadConfirm(answer, partial) ==
    /\ pc = "input_confirm"
    /\ confirm' = answer
    /\ LET st == [current_files |-> current_files, current_dirs |-> current_dirs,
                  fs_files |-> fs_files, fs_dirs |-> fs_dirs, exc |-> "none"]
           r == IF confirmed(answer) THEN execute_batch(to_delete, st, partial) ELSE st
       IN  /\ current_files' = r.current_files
           /\ current_dirs' = r.current_dirs
           /\ fs_files' = r.fs_files
           /\ fs_dirs' = r.fs_dirs
           /\ exc' = r.exc
           /\ pc' = IF r.exc = "none" THEN "while_true" ELSE "crashed"
    /\ UNCHANGED <<fs_unreadable, fs_locked, scandir_order, limit,
                   dir_sizes, large_files, large_dirs, cmd, to_delete, oob_removals,
                   remaining_files>>
    /\ UNCHANGED backup_vars

\* Another process removes a path of the pending batch while the prompt waits
OutOfBandRemove(k) ==
    /\ pc = "input_confirm"
    /\ oob_removals < MaxOutOfBand
    /\ k \in 1..Len(to_delete)
    /\ LET path == to_delete[k][1]
       IN  /\ path \in fs_dirs \/ path \in DOMAIN fs_files
           /\ IF path \in DOMAIN fs_files
              THEN /\ fs_files' = without_files(fs_files, {path})
                   /\ fs_dirs' = fs_dirs
              ELSE /\ fs_files' = without_files(fs_files,
                                     {f \in DOMAIN fs_files : startswith(f, path \o <<sep>>)})
                   /\ fs_dirs' = {d \in fs_dirs : ~(d = path \/ startswith(d, path \o <<sep>>))}
    /\ oob_removals' = oob_removals + 1
    /\ UNCHANGED <<fs_unreadable, fs_locked, scandir_order, limit, pc, exc,
                   dir_sizes, large_files, large_dirs, current_files, current_dirs,
                   cmd, to_delete, confirm, remaining_files>>
    /\ UNCHANGED backup_vars

----------------------------------------------------------------------------
(* main(): the backup prompt, ensure_mounted and backup_incremental *)

\* os.path.ismount(MOUNT_POINT)
is_mounted == mounted

\* The for loop of backup_incremental is entered
start_backup ==
    /\ pc' = "backup_loop"
    /\ source_idx' = 1

\* do_backup = input(...); on 'y' backup_incremental() runs up to its first
\* wait: the mount check, and when not mounted the mount request, which either
\* raises (ensure_mounted returns False and main ends) or leads to the prompt
AskBackup(answer, request_ok) ==
    /\ pc = "do_backup"
    /\ IF lower(answer) = <<"y">>
       THEN IF is_mounted
            THEN /\ mount_observed' = TRUE
                 /\ start_backup
            ELSE /\ pc' = IF request_ok THEN "mount_prompt" ELSE "exit"
                 /\ UNCHANGED <<mount_observed, source_idx>>
       ELSE /\ pc' = "exit"
            /\ UNCHANGED <<mount_observed, source_idx>>
    /\ UNCHANGED <<fs_dirs, fs_files, fs_unreadable, fs_locked, scandir_order, limit, exc,
                   dir_sizes, large_files, large_dirs, current_files, current_dirs,
                   cmd, to_delete, confirm, oob_removals, remaining_files,
                   mounted, choice, rsync_log, backup_errors>>

\* The volume appears at, or disappears from, the mount point while the prompt waits
VolumeChange ==
    /\ pc = "mount_prompt"
    /\ mounted' = ~mounted
    /\ UNCHANGED <<fs_dirs, fs_files, fs_unreadable, fs_locked, scandir_order, limit, pc, exc,
                   dir_sizes, large_files, large_dirs, current_files, current_dirs,
                   cmd, to_delete, confirm, oob_removals, remaining_files,
                   mount_observed, choice, source_idx, rsync_log, backup_errors>>

\* Mutation of MountPrompt: a ready answer is taken at its word
MountPrompt_unchecked(input) ==
    /\ pc = "mount_prompt"
    /\ choice' = lower(input)
    /\ IF choice' = <<"y">> \/ choice' = <<>>
       THEN /\ mount_observed' = mount_observed
            /\ start_backup
       ELSE /\ pc' = IF choice' = <<"r">> THEN "mount_prompt" ELSE "exit"
            /\ UNCHANGED <<mount_observed, source_idx>>
    /\ UNCHANGED <<fs_dirs, fs_files, fs_unreadable, fs_locked, scandir_order, limit, exc,
                   dir_sizes, large_files, large_dirs, current_files, current_dirs,
                   cmd, to_delete, confirm, oob_removals, remaining_files,
                   mounted, rsync_log, backup_errors>>

\* choice = input(...).lower() and the branch on it, in the loop of ensure_mounted
MountPrompt(input) ==
    /\ pc = "mount_prompt"
    /\ choice' = lower(input)
    /\ IF (choice' = <<"y">> \/ choice' = <<>>) /\ is_mounted
       THEN /\ mount_observed' = TRUE
            /\ start_backup
       ELSE /\ pc' = IF choice' \in {<<"y">>, <<>>, <<"r">>} THEN "mount_prompt" ELSE "exit"
            /\ UNCHANGED <<mount_observed, source_idx>>
    /\ UNCHANGED <<fs_dirs, fs_files, fs_unreadable, fs_locked, scandir_order, limit, exc,
                   dir_sizes, large_files, large_dirs, current_files, current_dirs,
                   cmd, to_delete, confirm, oob_removals, remaining_files,
                   mounted, rsync_log, backup_errors>>

\* Where main() goes when backup_incremental has returned True: cleanup_files
\* returns at once on an empty list and otherwise prints its summary and asks
after_backup == IF remaining_files = <<>> THEN "exit" ELSE "cleanup_confirm"

\* Mutation of BackupSource: the loop is left at the first failed transfer
BackupSource_stop_on_error(returncode) ==
    /\ pc = "backup_loop"
    /\ LET source == SOURCE_DIRS[source_idx]
           failed == exists(source) /\ returncode # 0
       IN  /\ rsync_log' = IF exists(source) THEN Append(rsync_log, <<source, returncode>>)
                           ELSE rsync_log
           /\ backup_errors' = IF failed THEN Append(backup_errors, source) ELSE backup_errors
           /\ source_idx' = IF failed THEN Len(SOURCE_DIRS) + 1 ELSE source_idx + 1
           /\ pc' = IF failed \/ source_idx = Len(SOURCE_DIRS) THEN after_backup
                    ELSE "backup_loop"
    /\ UNCHANGED <<fs_dirs, fs_files, fs_unreadable, fs_locked, scandir_order, limit, exc,
                   dir_sizes, large_files, large_dirs, current_files, current_dirs,
                   cmd, to_delete, confirm, oob_removals, remaining_files,
                   mounted, mount_observed, choice>>

\* One round of "for source in SOURCE_DIRS": a missing source is skipped, for
\* an existing one rsync runs and returns returncode, a non-zero one being
\* caught and printed; after the last round backup_incremental returns True
BackupSource(returncode) ==
    /\ pc = "backup_loop"
    /\ LET source == SOURCE_DIRS[source_idx]
       IN  /\ rsync_log' = IF exists(source) THEN Append(rsync_log, <<source, returncode>>)
                           ELSE rsync_log
           /\ backup_errors' = IF exists(source) /\ returncode # 0
                               THEN Append(backup_errors, source)
                               ELSE backup_errors
    /\ source_idx' = source_idx + 1
    /\ pc' = IF source_idx = Len(SOURCE_DIRS) THEN after_backup ELSE "backup_loop"
    /\ UNCHANGED <<fs_dirs, fs_files, fs_unreadable, fs_locked, scandir_order, limit, exc,
                   dir_sizes, large_files, large_dirs, current_files, current_dirs,
                   cmd, to_delete, confirm, oob_removals, remaining_files,
                   mounted, mount_observed, choice>>

----------------------------------------------------------------------------
(* cleanup_files *)

\* found_src: the first source the path starts with, or "Other"
found_src(path) ==
    LET hits == {i \in 1..Len(SOURCE_DIRS) : startswith(path, SOURCE_DIRS[i])}
    IN  IF hits = {} THEN "Other"
        ELSE SOURCE_DIRS[CHOOSE i \in hits : \A j \in hits : i <= j]

\* The keys of dir_summary: the groups the summary prints as backed up
dir_summary(files) == {found_src(files[i][1]) : i \in 1..Len(files)}

\* "for path, _ in remaining_files": a failure to delete is caught and printed
RECURSIVE cleanup_delete(_, _)
cleanup_delete(files, st) ==
    IF files = <<>> THEN st
    ELSE LET path == Head(files)[1]
             r == IF ~path_exists(st, path) THEN st
                  ELSE IF path \in DOMAIN st.fs_files THEN os_remove(st, path)
                  ELSE IF path \in st.fs_dirs THEN rmtree(st, path, {})
                  ELSE st
         IN  cleanup_delete(Tail(files), [r EXCEPT !.exc = "none"])

\* confirm = input(...) of cleanup_files and the deletion when it is 'YES'
CleanupConfirm(answer) ==
    /\ pc = "cleanup_confirm"
    /\ confirm' = answer
    /\ LET st == [current_files |-> current_files, current_dirs |-> current_dirs,
                  fs_files |-> fs_files, fs_dirs |-> fs_dirs, exc |-> "none"]
           r == IF answer = "YES" THEN cleanup_delete(remaining_files, st) ELSE st
       IN  /\ fs_files' = r.fs_files
           /\ fs_dirs' = r.fs_dirs
    /\ pc' = "exit"
    /\ UNCHANGED <<fs_unreadable, fs_locked, scandir_order, limit, exc,
                   dir_sizes, large_files, large_dirs, current_files, current_dirs,
                   cmd, to_delete, oob_removals, remaining_files>>
    /\ UNCHANGED backup_vars

----------------------------------------------------------------------------
(* What the operator types *)

Digit(n) == Digits[n + 1]

IndexToken(k, n) == <<k, Digit(n)>>
RangeToken(k, a, b) == <<k, Digit(a), "-", k, Digit(b)>>
ShortRangeToken(k, a, b) == <<k, Digit(a), "-", Digit(b)>>

Numbers == 0..MaxIndex

SingleTokens ==
    UNION {{IndexToken(k, n) : n \in Numbers} : k \in {"F", "D"}}
    \cup UNION {{RangeToken(k, a, b) : a, b \in Numbers} : k \in {"F", "D"}}
    \cup UNION {{ShortRangeToken(k, a, b) : a, b \in Numbers} : k \in {"F", "D"}}

OtherCommands ==
    { <<"d", "o", "n", "e">>, <<" ", "D", "o", "n", "e", " ">>,
      <<".", "i">>, <<".", "I">>, <<".", "x">>, <<"c">>,
      <<>>, <<"x", "1">>, <<"1">>, <<"f">>, <<"f", "x">>, <<"f", "-", "1">>,
      <<"f", "1", "-">>, <<"f", "1", "-", "2", "-", "3">>, <<"f", "+", "1">>,
      <<"f", "0", "1">>, <<"f", "1", "_", "0">>, <<"f", "1", ".", "0">>,
      <<"f", "1", "-", "d", "2">>, <<"d", "1", "-", "f", "2">>,
      <<"F", "1", " ", "F", "1">>, <<"F", "1", ",", "f", "1">>,
      <<"F", "1", "-", "2", ",", "F", "2">>, <<"D", "1", " ", "D", "1", "-", "2">>,
      <<"F", "2", ",", " ", "F", "1">>, <<"F", "1", ",", " ", "D", "1">>,
      <<"F", "1", " ", "x", "1">>, <<"x", "1", ",", "D", "1">>,
      <<"F", "9", " ", "D", "2">>, <<"f", "1", "-", "f", "2", ",", " ", "d", "1">> }

\* Commands of two tokens: selections within and out of bounds, malformed
\* tokens, an unrecognized prefix and an extension, in both orders
Separators == {<<" ">>, <<",">>}

TokenPool ==
    { IndexToken("F", 1), IndexToken("d", 1), IndexToken("F", 9), IndexToken("f", 0),
      ShortRangeToken("F", 1, 2), RangeToken("D", 2, 3),
      <<"x", "1">>, <<"f", "1", "-">>, <<"f">>, <<".", "i">> }

PairCommands == {t1 \o s \o t2 : t1 \in TokenPool, s \in Separators, t2 \in TokenPool}

ParserCommands == SingleTokens \cup OtherCommands \cup PairCommands

SessionCommands ==
    { <<"d", "o", "n", "e">>, <<"D", "o", "N", "e">>, <<".", "i">>, <<"x">>,
      <<"F", "1">>, <<"f", "2">>, <<"F", "3">>, <<"D", "1">>, <<"d", "2">>,
      <<"F", "1", " ", "F", "1">>, <<"F", "1", "-", "2", ",", "F", "2">>,
      <<"F", "1", "-", "F", "3">>, <<"D", "1", " ", "D", "1">>,
      <<"F", "2", ",", " ", "F", "1">>, <<"F", "1", ",", " ", "D", "1">>,
      <<"f", "3", ",", "d", "1", "-", "2">> }

Answers == {"YES", "yes", "y", ""}

\* The answers to the backup prompt and to the mount prompt
BackupAnswers == {<<"y">>, <<"Y">>, <<"n">>, <<>>}
MountAnswers == {<<"y">>, <<"Y">>, <<>>, <<"r">>, <<"R">>, <<"c">>, <<"n">>}

\* What rsync may return: success or an error
ReturnCodes == {0, 1}

\* The commands of a short session before the backup
BackupSessionCommands == {<<"d", "o", "n", "e">>, <<"F", "1">>, <<"D", "1">>}

\* The files a failing rmtree may have removed before it raises
Partials == IF fs_locked = {} THEN {{}} ELSE SUBSET ((DOMAIN fs_files) \ fs_locked)

----------------------------------------------------------------------------
(* Specifications *)

\* The parser on its own: main() up to the first command
NextParse ==
    \/ ListLargeItems
    \/ LoopHead
    \/ \E input \in ParserCommands : ReadCommand(input)

SpecParse == InitParse /\ [][NextParse]_vars

\* main() through the pre-backup cleanup loop
Next ==
    \/ ListLargeItems
    \/ LoopHead
    \/ \E input \in SessionCommands : ReadCommand(input)
    \/ \E answer \in Answers : \E partial \in Partials : ReadConfirm(answer, partial)
    \/ \E k \in 1..Len(to_delete) : OutOfBandRemove(k)

Spec == Init /\ [][Next]_vars

\* main() to its end: a short session, the backup, the post-backup cleanup
NextBackup ==
    \/ ListLargeItems
    \/ LoopHead
    \/ \E input \in BackupSessionCommands : ReadCommand(input)
    \/ \E answer \in Answers : \E partial \in Partials : ReadConfirm(answer, partial)
    \/ \E answer \in BackupAnswers : \E request_ok \in BOOLEAN : AskBackup(answer, request_ok)
    \/ VolumeChange
    \/ \E input \in MountAnswers : MountPrompt(input)
    \/ \E returncode \in ReturnCodes : BackupSource(returncode)
    \/ \E answer \in Answers : CleanupConfirm(answer)

SpecBackup == InitBackup /\ [][NextBackup]_vars

----------------------------------------------------------------------------
(* Properties of the scan *)

Scanned == pc # "list_large_items"

RECURSIVE SumOfSizes(_)
SumOfSizes(F) ==
    IF F = {} THEN 0
    ELSE LET f == CHOOSE g \in F : TRUE
         IN  (IF f \in fs_unreadable THEN 0 ELSE fs_files[f]) + SumOfSizes(F \ {f})

FilesBeneath(d) == {f \in DOMAIN fs_files : startswith(f, d \o <<sep>>)}

ExistingSources == {SOURCE_DIRS[i] : i \in {j \in 1..Len(SOURCE_DIRS) : exists(SOURCE_DIRS[j])}}

AtOrBeneath(d, r) == d = r \/ startswith(d, r \o <<sep>>)

\* C1: after the scan, the size recorded for every directory at or beneath an
\* existing source is the sum of the sizes of all files beneath it, an
\* unreadable file counting as 0.
C1_CumulativeSize ==
    Scanned =>
        \A r \in ExistingSources : \A d \in fs_dirs :
            AtOrBeneath(d, r) =>
                /\ dict_find(dir_sizes, d, 1) # 0
                /\ dict_get(dir_sizes, d, 0) = SumOfSizes(FilesBeneath(d))

C1_Witness ==
    /\ Scanned
    /\ fs_unreadable # {}
    /\ dict_get(dir_sizes, Dir_pxy, 0) > 0
    /\ dict_get(dir_sizes, Dir_px, 0) > dict_get(dir_sizes, Dir_pxy, 0)
    /\ dict_get(dir_sizes, HOME_p, 0) > dict_get(dir_sizes, Dir_px, 0)
    /\ File_pyd \in fs_unreadable
    /\ dict_get(dir_sizes, Dir_py, 0) = 0
    /\ dict_get(dir_sizes, HOME_q, 0) > 0

\* C2: in the ranked directory list no entry equals, or lies beneath, an
\* earlier entry.
C2_NoDescendantOfEarlier ==
    Scanned =>
        \A i, j \in 1..Len(large_dirs) :
            i < j => /\ large_dirs[j][1] # large_dirs[i][1]
                     /\ ~startswith(large_dirs[j][1], large_dirs[i][1] \o <<sep>>)

C2_Witness ==
    /\ Scanned
    /\ Len(large_dirs) = 1
    /\ limit >= 2
    /\ large_dirs[1][1] = Dir_px
    /\ Dir_pxy \in fs_dirs
    /\ dict_get(dir_sizes, Dir_pxy, 0) = dict_get(dir_sizes, Dir_px, 0)

\* C3: every ranked directory is a directory strictly beneath a source, and no
\* source is ranked.
C3_StrictlyBeneathSource ==
    Scanned =>
        \A i \in 1..Len(large_dirs) :
            /\ large_dirs[i][1] \in fs_dirs
            /\ \E k \in 1..Len(SOURCE_DIRS) :
                  startswith(large_dirs[i][1], SOURCE_DIRS[k] \o <<sep>>)
            /\ \A k \in 1..Len(SOURCE_DIRS) : large_dirs[i][1] # SOURCE_DIRS[k]

C3_Witness ==
    /\ Scanned
    /\ Len(large_dirs) = 2
    /\ large_dirs[1][1] = Dir_qx
    /\ large_dirs[2][1] = Dir_py
    /\ dict_get(dir_sizes, HOME_p, 0) > large_dirs[1][2]

----------------------------------------------------------------------------
(* Properties of the selection parser *)

\* The state right after a command was read and parsed
JustParsed ==
    /\ cmd # <<>>
    /\ \/ pc = "input_confirm"
       \/ pc = "while_true" /\ to_delete = <<>>

\* C5: the deletion set holds at most one entry for a (kind, index).
C5_NoDuplicateEntries ==
    \A i, j \in 1..Len(to_delete) :
        i < j => ~(to_delete[i][3] = to_delete[j][3] /\ to_delete[i][4] = to_delete[j][4])

\* The entries that select positions a..b (1-based) of a list, in order
EntriesOf(list, kind, a, b) ==
    IF a > b THEN <<>>
    ELSE [i \in 1..(b - a + 1) |-> <<list[a + i - 1][1], list[a + i - 1][2], kind, a + i - 2>>]

ListOf(k) == IF k = "F" THEN current_files ELSE current_dirs
KindOf(k) == IF k = "F" THEN "file" ELSE "dir"

\* The index and range tokens as the parser sees them, lowered
LoweredIndexToken ==
    [k \in {"F", "D"}, n \in Numbers |-> lower(IndexToken(k, n))]

LoweredRangeTokens ==
    [k \in {"F", "D"}, a \in Numbers, b \in Numbers |->
        {lower(RangeToken(k, a, b)), lower(ShortRangeToken(k, a, b))}]

\* C10: F<n> selects exactly file n when 1 <= n <= nf and nothing otherwise;
\* F<a>-F<b> and F<a>-<b> select exactly files a..b when 1 <= a <= b <= nf and
\* nothing when a > b; D tokens likewise against the directory list.
C10_IndexAndRangeTokens ==
    JustParsed =>
        \A k \in {"F", "D"} :
            /\ \A n \in Numbers :
                  cmd = LoweredIndexToken[k, n] =>
                      to_delete = IF 1 <= n /\ n <= Len(ListOf(k))
                                  THEN EntriesOf(ListOf(k), KindOf(k), n, n)
                                  ELSE <<>>
            /\ \A a, b \in Numbers :
                  cmd \in LoweredRangeTokens[k, a, b] =>
                      /\ (1 <= a /\ a <= b /\ b <= Len(ListOf(k))) =>
                             to_delete = EntriesOf(ListOf(k), KindOf(k), a, b)
                      /\ a > b => to_delete = <<>>

C10_Witness ==
    /\ pc = "input_confirm"
    /\ cmd = lower(RangeToken("F", 2, 3))
    /\ Len(current_files) = 3
    /\ Len(to_delete) = 2
    /\ to_delete[1][4] = 1
    /\ to_delete[2][4] = 2

----------------------------------------------------------------------------
(* Properties of the confirmation and of the deletion executor *)

\* A step that reads the answer to the confirmation prompt
AnswerRead == pc = "input_confirm" /\ pc' # "input_confirm"

Paths(list) == {list[i][1] : i \in 1..Len(list)}

Selected(kind) == {to_delete[i][4] + 1 : i \in {j \in 1..Len(to_delete) : to_delete[j][3] = kind}}

\* list with the positions in S taken out, the rest in order
RECURSIVE Without(_, _, _)
Without(list, S, i) ==
    IF i > Len(list) THEN <<>>
    ELSE (IF i \in S THEN <<>> ELSE <<list[i]>>) \o Without(list, S, i + 1)

AtOrBeneathBatch(path) ==
    \E i \in 1..Len(to_delete) :
        path = to_delete[i][1] \/ startswith(path, to_delete[i][1] \o <<sep>>)

\* C6: a confirmed batch that completes takes exactly the selected positions
\* out of each working list, and removes from the filesystem only paths of
\* the deletion set (with what lies beneath a selected directory).
C6_ExactlyTheBatchIsRemoved ==
    [][(AnswerRead /\ confirm' = "YES" /\ pc' = "while_true") =>
          /\ current_files' = Without(current_files, Selected("file"), 1)
          /\ current_dirs' = Without(current_dirs, Selected("dir"), 1)
          /\ \A f \in (DOMAIN fs_files) \ (DOMAIN fs_files') : AtOrBeneathBatch(f)
          /\ \A d \in fs_dirs \ fs_dirs' : AtOrBeneathBatch(d)]_vars

\* C7: any answer other than the literal YES removes nothing, leaves both
\* working lists as they were, and the loop goes on to its next prompt.
C7_OtherAnswerChangesNothing ==
    [][(AnswerRead /\ confirm' # "YES") =>
          /\ fs_files' = fs_files
          /\ fs_dirs' = fs_dirs
          /\ current_files' = current_files
          /\ current_dirs' = current_dirs
          /\ exc' = "none"
          /\ pc' = "while_true"
          /\ (current_files' # <<>> \/ current_dirs' # <<>>)]_vars

C7_Witness ==
    /\ pc = "while_true"
    /\ confirm = "yes"
    /\ Len(to_delete) >= 2
    /\ \A i \in 1..Len(to_delete) : exists(to_delete[i][1])
    /\ Len(current_files) = Len(large_files)

\* C8: when the removal of one existing path of a confirmed batch fails, the
\* session goes on, and every other entry of the batch is still removed from
\* the filesystem and from its working list.
C8_FailureDoesNotAbortBatch ==
    [][(AnswerRead /\ confirm' = "YES"
            /\ \E i \in 1..Len(to_delete) : to_delete[i][1] \in fs_locked) =>
          /\ pc' = "while_true"
          /\ \A i \in 1..Len(to_delete) :
                to_delete[i][1] \notin fs_locked =>
                    /\ to_delete[i][1] \notin (DOMAIN fs_files') \cup fs_dirs'
                    /\ to_delete[i][1] \notin Paths(current_files') \cup Paths(current_dirs')]_vars

\* C9: a confirmed batch whose paths no longer exist is processed without
\* error and without any removal from the filesystem, and its entries are
\* gone from the working lists afterwards.
C9_MissingPathIsSkipped ==
    [][(AnswerRead /\ confirm' = "YES"
            /\ \A i \in 1..Len(to_delete) : ~exists(to_delete[i][1])) =>
          /\ exc' = "none"
          /\ pc' = "while_true"
          /\ fs_files' = fs_files
          /\ fs_dirs' = fs_dirs
          /\ \A i \in 1..Len(to_delete) :
                to_delete[i][1] \notin Paths(current_files') \cup Paths(current_dirs')]_vars

----------------------------------------------------------------------------
(* Properties of the extension filter *)

SameLetter(a, b) ==
    \/ a = b
    \/ \E i \in 1..Len(LowerCase) : {a, b} = {LowerCase[i], UpperCase[i]}

\* path ends with suffix, letters compared without regard to case
EndsWithIgnoringCase(path, suffix) ==
    /\ Len(suffix) <= Len(path)
    /\ \A j \in 1..Len(suffix) :
          SameLetter(path[Len(path) - Len(suffix) + j], suffix[j])

ExtensionCommand == JustParsed /\ startswith(cmd, <<".">>)

\* C11: a command that is an extension .ext selects every file of the working
\* file list whose path ends with that suffix, letter case ignored, each one
\* once and in list order, selects no other file and never a directory.
C11_ExtensionSelectsMatchingFiles ==
    ExtensionCommand =>
        /\ \A i \in 1..Len(current_files) :
              EndsWithIgnoringCase(current_files[i][1], cmd) <=>
                  \E k \in 1..Len(to_delete) : to_delete[k][4] = i - 1
        /\ \A k \in 1..Len(to_delete) :
              /\ to_delete[k][3] = "file"
              /\ to_delete[k][4] \in 0..(Len(current_files) - 1)
              /\ to_delete[k][1] = current_files[to_delete[k][4] + 1][1]
              /\ to_delete[k][2] = current_files[to_delete[k][4] + 1][2]
              /\ \A h \in 1..(k - 1) : to_delete[h][4] < to_delete[k][4]

\* An extension typed in lower case selects a file spelled in upper case and
\* one spelled in lower case, and leaves a third listed file and the listed
\* directories alone
C11_Witness ==
    /\ ExtensionCommand
    /\ cmd = <<".", "i">>
    /\ Len(current_files) = 3
    /\ Len(current_dirs) >= 1
    /\ {to_delete[k][1] : k \in 1..Len(to_delete)} = {File_pxb, File_pyd}

----------------------------------------------------------------------------
(* Properties of commands of several tokens *)

TokensOf(command) == split_whitespace(replace(command, ",", " "), <<>>, <<>>)

Max(a, b) == IF a >= b THEN a ELSE b
Min(a, b) == IF a <= b THEN a ELSE b

AllNumbers == Numbers \cup {9}

\* Tokens that are not a selection: unrecognized prefix, no number, an open or
\* a double range, a fraction, an extension in the middle of a command
DroppedTokens ==
    { <<"x", "1">>, <<"1">>, <<"f">>, <<"f", "x">>, <<"f", "-", "1">>, <<"f", "1", "-">>,
      <<"f", "1", "-", "2", "-", "3">>, <<"f", "1", ".", "0">>, <<"c">>,
      <<".", "i">>, <<".", "x">> }

\* The index and range tokens with the list and the positions each one names
Meanings ==
    {<<lower(IndexToken(k, n)), k, n, n>> : k \in {"F", "D"}, n \in AllNumbers}
    \cup {<<lower(RangeToken(k, ab[1], ab[2])), k, ab[1], ab[2]>> :
              k \in {"F", "D"}, ab \in AllNumbers \X AllNumbers}
    \cup {<<lower(ShortRangeToken(k, ab[1], ab[2])), k, ab[1], ab[2]>> :
              k \in {"F", "D"}, ab \in AllNumbers \X AllNumbers}

SelectionTokens == {m[1] : m \in Meanings}

\* What an index or range token selects: the positions of its list it names
IndexSelection(token) ==
    IF token \in SelectionTokens
    THEN LET m == CHOOSE m \in Meanings : m[1] = token
         IN  EntriesOf(ListOf(m[2]), KindOf(m[2]), Max(m[3], 1), Min(m[4], Len(ListOf(m[2]))))
    ELSE <<>>

\* What an extension token selects when it is read as a filter
ExtensionSelection(token) ==
    LET hits == {i \in 1..Len(current_files) :
                    EndsWithIgnoringCase(current_files[i][1], token)}
    IN  [k \in 1..Cardinality(hits) |->
            LET i == CHOOSE j \in hits : Cardinality({h \in hits : h <= j}) = k
            IN  <<current_files[i][1], current_files[i][2], "file", i - 1>>]

\* A token the grammar classifies: an index, a range or one that is dropped
Classified(token) == token \in DroppedTokens \cup SelectionTokens

RECURSIVE Concatenated(_)
Concatenated(tokens) ==
    IF tokens = <<>> THEN <<>>
    ELSE IndexSelection(Head(tokens)) \o Concatenated(Tail(tokens))

----------------------------------------------------------------------------
(* Properties of the ranked file list *)

\* The files in the order the scan meets them: source by source, directory by
\* directory as walked, name by name as listed
RECURSIVE FilesOfRoots(_)
FilesOfRoots(roots) ==
    IF roots = <<>> THEN <<>>
    ELSE LET names == scandir_files(Head(roots))
         IN  [i \in 1..Len(names) |-> join(Head(roots), names[i])] \o FilesOfRoots(Tail(roots))

RECURSIVE Discovered(_)
Discovered(sources) ==
    IF sources = <<>> THEN <<>>
    ELSE (IF exists(Head(sources)) THEN FilesOfRoots(walk(Head(sources))) ELSE <<>>)
         \o Discovered(Tail(sources))

ReadSize(f) == IF f \in fs_unreadable THEN 0 ELSE fs_files[f]

LargeFiles == {f \in DOMAIN fs_files : ReadSize(f) > MiB}

\* The position at which each file is met
Positions ==
    LET met == Discovered(SOURCE_DIRS)
    IN  [f \in {met[i] : i \in 1..Len(met)} |-> CHOOSE i \in 1..Len(met) : met[i] = f]

\* g is ranked before f: larger, or as large and met earlier
RankedBefore(g, f, pos) ==
    \/ ReadSize(g) > ReadSize(f)
    \/ ReadSize(g) = ReadSize(f) /\ pos[g] < pos[f]

\* C13: the returned file list is the first limit entries of all scanned files
\* of size strictly above 1 MiB, by size descending, files of equal size in the
\* order of discovery; a file of at most 1 MiB is never listed, yet its size is
\* part of the cumulative size of every directory above it.
C13_LargestFilesInOrder ==
    Scanned =>
        /\ Len(large_files) = Min(limit, Cardinality(LargeFiles))
        /\ LET pos == Positions
           IN  \A i \in 1..Len(large_files) :
                  /\ large_files[i][1] \in LargeFiles
                  /\ large_files[i][2] = ReadSize(large_files[i][1])
                  /\ Cardinality({g \in LargeFiles :
                                     RankedBefore(g, large_files[i][1], pos)}) = i - 1
        /\ \A f \in DOMAIN fs_files :
              ReadSize(f) <= MiB =>
                  /\ f \notin Paths(large_files)
                  /\ \A d \in fs_dirs :
                        (startswith(f, d \o <<sep>>) /\ \E r \in ExistingSources : AtOrBeneath(d, r)) =>
                            dict_get(dir_sizes, d, 0) = SumOfSizes(FilesBeneath(d))

\* More large files than the limit, two of the listed ones of equal size, a
\* larger one met later but listed first, and a file of exactly 1 MiB that is
\* counted in its directory without being listed
C13_Witness ==
    /\ Scanned
    /\ Cardinality(LargeFiles) > limit
    /\ Len(large_files) = 3
    /\ large_files[1][2] > large_files[2][2]
    /\ large_files[2][2] = large_files[3][2]
    /\ Positions[large_files[1][1]] > Positions[large_files[2][1]]
    /\ File_qxe \in DOMAIN fs_files
    /\ ReadSize(File_qxe) = MiB
    /\ dict_get(dir_sizes, Dir_qx, 0) = MiB

----------------------------------------------------------------------------
(* Properties of the ranked directory list, in both orders *)

Related(a, b) == startswith(a, b \o <<sep>>) \/ startswith(b, a \o <<sep>>)

\* C14: no two entries of the ranked directory list are an ancestor and a
\* descendant of one another, whichever comes first and also when their
\* cumulative sizes are equal; so no file lies beneath two listed entries.
C14_NoNestedEntries ==
    Scanned =>
        /\ \A i, j \in 1..Len(large_dirs) :
              i # j => /\ large_dirs[i][1] # large_dirs[j][1]
                       /\ ~Related(large_dirs[i][1], large_dirs[j][1])
        /\ \A f \in DOMAIN fs_files :
              Cardinality({i \in 1..Len(large_dirs) :
                              startswith(f, large_dirs[i][1] \o <<sep>>)}) <= 1

\* A directory and its subdirectory of the same cumulative size compete for
\* the list next to another entry: the directory alone is listed
C14_Witness ==
    /\ Scanned
    /\ Len(large_dirs) = 2
    /\ limit > 2
    /\ Dir_pxy \in fs_dirs
    /\ dict_get(dir_sizes, Dir_pxy, 0) = dict_get(dir_sizes, Dir_px, 0)
    /\ dict_get(dir_sizes, Dir_px, 0) > 0
    /\ Dir_px \in Paths(large_dirs)
    /\ Dir_pxy \notin Paths(large_dirs)

----------------------------------------------------------------------------
(* Properties of the pre-backup loop as a whole *)

InLoop == pc \in {"while_true", "input_cmd", "input_confirm"}

\* The round starts with both working lists empty
BothEmptyAtStart == pc = "while_true" /\ current_files = <<>> /\ current_dirs = <<>>

\* The operator's command, stripped and lowered, is the done token
DoneEntered == pc = "input_cmd" /\ cmd' = DoneToken

\* C17: the pre-backup loop returns exactly when the done token is entered, in
\* any letter case, or when both working lists are empty at the start of a
\* round; entering done removes nothing from the filesystem or from the lists;
\* and what the loop returns is the working file list as it stands then.
C17_LoopEndsOnDoneOrEmpty ==
    [][InLoop =>
          /\ pc' = "do_backup" <=> (BothEmptyAtStart \/ DoneEntered)
          /\ DoneEntered =>
                /\ fs_files' = fs_files
                /\ fs_dirs' = fs_dirs
                /\ current_files' = current_files
                /\ current_dirs' = current_dirs
          /\ pc' = "do_backup" =>
                /\ remaining_files' = current_files
                /\ current_files' = current_files]_vars

\* done is entered after a confirmed deletion: the shortened list is returned
C17_Witness ==
    /\ pc = "do_backup"
    /\ cmd = DoneToken
    /\ remaining_files = current_files
    /\ remaining_files # <<>>
    /\ Len(remaining_files) < Len(large_files)

----------------------------------------------------------------------------
(* Properties of the working file list against the filesystem *)

\* C19: a confirmed deletion leaves in the working file list no file that it
\* has removed from the filesystem; in particular none beneath a directory it
\* has deleted.
C19_NoDeletedFileStaysListed ==
    [][(AnswerRead /\ confirm' = "YES") =>
          \A f \in Paths(current_files') :
              f \in DOMAIN fs_files => f \in DOMAIN fs_files']_vars

----------------------------------------------------------------------------
(* Properties of the backup *)

ReadyOrRetry == {<<"y">>, <<>>, <<"r">>}

\* C15: rsync is never run for any source unless the volume was observed
\* mounted; while the volume is not mounted, every ready or retry answer leads
\* back to the mount prompt, and any other answer ends the backup with no rsync
\* run.
C15_NoTransferUnlessMounted ==
    /\ [](rsync_log # <<>> => mount_observed)
    /\ [][/\ (mount_observed' /\ ~mount_observed) => mounted
          /\ (pc = "mount_prompt" /\ ~mounted /\ choice' \in ReadyOrRetry) =>
                /\ pc' = "mount_prompt"
                /\ rsync_log' = <<>>
          /\ (pc = "mount_prompt" /\ choice' \notin ReadyOrRetry) =>
                /\ pc' = "exit"
                /\ ~mount_observed'
                /\ rsync_log' = <<>>
          /\ (pc = "exit" /\ rsync_log = <<>>) => rsync_log' = <<>>]_vars

\* The volume was not mounted at first, the operator answered ready after it
\* appeared, and rsync has run
C15_Witness ==
    /\ rsync_log # <<>>
    /\ mount_observed
    /\ choice = <<"y">>

\* The sources among the first n of SOURCE_DIRS that exist, in that order
ExistingAmongFirst(n) ==
    LET here(source) == exists(source)
    IN  SelectSeq(SubSeq(SOURCE_DIRS, 1, n), here)

\* The sources of the log entries with a non-zero return code, in log order
FailedInLog ==
    LET failed(entry) == entry[2] # 0
        entries == SelectSeq(rsync_log, failed)
    IN  [i \in 1..Len(entries) |-> entries[i][1]]

\* C16: a non-zero return code of rsync for one source is printed as an error
\* and rsync is still run for every later source that exists, in the order of
\* SOURCE_DIRS: once the loop is over, the runs are exactly the existing
\* sources, in order, whatever their outcomes.
C16_FailureDoesNotStopBackup ==
    source_idx >= 1 =>
        /\ [i \in 1..Len(rsync_log) |-> rsync_log[i][1]] = ExistingAmongFirst(source_idx - 1)
        /\ backup_errors = FailedInLog
        /\ pc \in {"cleanup_confirm", "exit"} => source_idx = Len(SOURCE_DIRS) + 1

\* rsync failed for the first source and has still run for the second
C16_Witness ==
    /\ source_idx = Len(SOURCE_DIRS) + 1
    /\ Len(rsync_log) = 2
    /\ rsync_log[1] = <<HOME_p, 1>>
    /\ rsync_log[2][1] = HOME_q
    /\ backup_errors = <<HOME_p>>

\* The sources whose transfer was run and returned 0
TransferredSources == {rsync_log[i][1] : i \in {j \in 1..Len(rsync_log) : rsync_log[j][2] = 0}}

\* C18: the post-backup cleanup presents as backed up, and deletes, only files
\* of sources whose transfer was run and succeeded.
C18_DeletedOnlyIfTransferred ==
    [][pc = "cleanup_confirm" =>
          /\ dir_summary(remaining_files) \subseteq TransferredSources
          /\ \A f \in (DOMAIN fs_files) \ (DOMAIN fs_files') :
                found_src(f) \in TransferredSources]_vars

====
